---- MODULE Spec2Model ----
(***************************************************************************)
(* The remittance lifecycle of RemitMatch: one remittance of ACME          *)
(* Corporation, its lines and its audit trail in the ledger store, the     *)
(* payment it may own at the external accounting gateway, and the calls    *)
(* that act on it.                                                         *)
(*                                                                         *)
(* The FastAPI handlers (process, retry, save-overrides) are translated    *)
(* from the Python of the task plans, the tables from the SQL migration.   *)
(* The /approve and /unapprove endpoints, soft delete and restore have     *)
(* callers and columns in the repository but no body: they follow the      *)
(* specification's algorithm.  Every database call of a handler commits on *)
(* its own (the Supabase client has no transaction), so a handler that     *)
(* fails half way leaves its earlier writes in place.                      *)
(***************************************************************************)
EXTENDS Integers, Sequences, FiniteSets, TLC

\* ------------------------------------------------------------------ bounds
MaxLines == 1
MaxAmount == 2
MaxOps == 3
MaxPay == 2
MaxBatch == 2
MaxAttempts == 6

\* the retry limits of the web client's QueryClient
QueryRetries == 3
MutationRetries == 1

\* ------------------------------------------------------------- null values
\* NULL of a text/uuid/timestamp column, of a NUMERIC column and of
\* xero_payment_id (payment ids are 1..MaxPay).
NULL == "NULL"
NONE == 0
NoPay == 0
\* a key that is missing from a request dictionary
Absent == 0

\* ------------------------------------------------------------ enumerations
Uploaded == "Uploaded"
DataRetrieved == "DataRetrieved"
AwaitingApproval == "AwaitingApproval"
Unmatched == "Unmatched"
ExportedUnreconciled == "ExportedUnreconciled"
ExportedReconciled == "ExportedReconciled"
ExportFailed == "ExportFailed"

RemittanceStatus ==
  {Uploaded, DataRetrieved, AwaitingApproval, Unmatched,
   ExportedUnreconciled, ExportedReconciled, ExportFailed}

\* CHECK (outcome IN ('success', 'error', 'warning')) of audit_log
AuditOutcomeCheck == {"success", "error", "warning"}

\* seed users: bob is a 'user' and alice an 'auditor' of ACME, tom owns
\* TechCorp only; "system" is the background worker.
Users == {"bob", "alice", "tom"}

Role(u) ==
  CASE u = "bob" -> "user"
    [] u = "alice" -> "auditor"
    [] OTHER -> NULL

\* an access check that trusts the caller
TrustedAccess(u) == TRUE

\* check_organisation_access: a membership row exists, whatever the role
check_organisation_access(u) == Role(u) # NULL

\* can_approve: owner, admin and user, not auditor
can_approve(u) == Role(u) \in {"owner", "admin", "user"}

Amounts == 1..MaxAmount
ConfidenceThreshold == 50
\* confidence_score NUMERIC(5,2) is held in hundredths
ScoreScale == 100
Confidences == {40, 88}
PayIds == 1..MaxPay
Callers == {"c1", "c2"}
\* seed organisations, and the remittances of one organisation's poll
Orgs == {"acme", "techcorp"}
BatchRems == 1..MaxBatch

\* --------------------------------------------------------- remittance lines
Coalesce(a, b, null) == IF a # null THEN a ELSE b

\* the generated columns with the arguments of COALESCE exchanged
AiFirstColumns(l) ==
  [l EXCEPT !.final_paid_amount =
                Coalesce(l.ai_paid_amount, l.manual_paid_amount, NONE),
            !.final_invoice_id =
                Coalesce(l.ai_invoice_id, l.override_invoice_id, NULL)]

\* GENERATED ALWAYS AS (COALESCE(manual_paid_amount, ai_paid_amount)) STORED
\* GENERATED ALWAYS AS (COALESCE(override_invoice_id, ai_invoice_id)) STORED
GeneratedColumns(l) ==
  [l EXCEPT !.final_paid_amount =
                Coalesce(l.manual_paid_amount, l.ai_paid_amount, NONE),
            !.final_invoice_id =
                Coalesce(l.override_invoice_id, l.ai_invoice_id, NULL)]

\* the row process_remittance inserts for one extracted payment
NewLine(payment) ==
  GeneratedColumns(
    [invoice_number |-> payment.InvoiceNo,
     ai_paid_amount |-> payment.PaidAmount,
     ai_invoice_id |-> NULL,
     manual_paid_amount |-> NONE,
     override_invoice_id |-> NULL,
     final_paid_amount |-> NONE,
     final_invoice_id |-> NULL])

RECURSIVE SumFinal(_)
SumFinal(ls) ==
  IF ls = <<>> THEN 0
  ELSE Head(ls).final_paid_amount + SumFinal(Tail(ls))

\* the Payments an extraction can return: one invoice number per position
Payment(i, a) == [InvoiceNo |-> i, PaidAmount |-> a]

PaymentLists ==
  UNION {[1..n -> Amounts] : n \in 1..MaxLines}

\* the TotalAmount an extraction can return, its own reading of the document
TotalAmounts == 1..(MaxAmount + 1)

Payments(f) == [i \in DOMAIN f |-> Payment(i, f[i])]

\* ------------------------------------------------------------------- state
VARIABLES rem, lines, audit_log, payments, idem, call, last, nops, batch,
          client

vars == <<rem, lines, audit_log, payments, idem, call, last, nops, batch,
         client>>

\* the remittance and what hangs on it, without the poller's batches
ledger == <<rem, lines, audit_log, payments, idem, call, last, nops>>

\* the request of a call that carries none
NoRequest ==
  [line |-> 1, manual_paid_amount |-> Absent, override_invoice_id |-> NULL,
   approve |-> FALSE]

\* a call slot: the operation it runs, where it stands, and its locals (the
\* acting user, the payment status the gateway reported, the gateway's answer
\* to the create or delete call, the payment id in hand, the request)
Idle ==
  [op |-> "none", pc |-> "idle", user |-> NULL, seen |-> NULL,
   gw |-> NULL, pay |-> NoPay, req |-> NoRequest]

\* what the call that returned last gave back to its caller
Returned(op, result, locals) ==
  [op |-> op, result |-> result, reason |-> NULL,
   seen |-> locals.seen, gw |-> locals.gw, pay |-> locals.pay]

\* a remittance as the upload inserts it: status DEFAULT 'Uploaded', no lines
UploadedRemittance ==
  [status |-> Uploaded,
   payment_date |-> NULL,
   payment_amount |-> NONE,
   payment_reference |-> NULL,
   confidence_score |-> NONE,
   approved_at |-> NULL,
   approved_by |-> NULL,
   exported_at |-> NULL,
   xero_payment_id |-> NoPay,
   deleted_at |-> NULL,
   deleted_by |-> NULL]

\* the seeded remittance 2222...: awaiting approval, confidence_score 88.2,
\* one line whose amount the user corrected (1400.00 extracted, 1500.00
\* entered; here 1 and 2)
SeedRemittance ==
  [UploadedRemittance EXCEPT !.status = AwaitingApproval,
                             !.payment_date = "date",
                             !.payment_amount = 2,
                             !.payment_reference = "reference",
                             !.confidence_score = 8820]

SeedLines ==
  << GeneratedColumns(
       [invoice_number |-> 1,
        ai_paid_amount |-> 1,
        ai_invoice_id |-> "INV-001",
        manual_paid_amount |-> 2,
        override_invoice_id |-> "INV-001",
        final_paid_amount |-> NONE,
        final_invoice_id |-> NULL]) >>

SeedAudit ==
  << [action |-> "upload", outcome |-> "success"],
     [action |-> "ai_extraction", outcome |-> "success"],
     [action |-> "manual_edit", outcome |-> "success"] >>

\* the poll of an organisation: the statuses of its remittances, where
\* PollOrganisation stands, the remittances it selected, those still to
\* evaluate, and the TransitionResult of each
Batches(statuses) ==
  [status : [Orgs -> [BatchRems -> statuses]],
   pc : [Orgs -> {"idle"}],
   selected : [Orgs -> {{}}],
   todo : [Orgs -> {{}}],
   results : [Orgs -> [BatchRems -> {NULL}]]]

\* no scheduler in the picture: neither organisation is polled
NoBatch == CHOOSE b \in Batches({AwaitingApproval}) : TRUE

\* ------------------------------------------------------------- web client
\* the tokens getToken hands out over a session, and its answer when the
\* user is signed out
Tokens == {"t1", "t2"}
NoToken == "no-token"

\* `Bearer ${token}`, the value setAuthToken stores
Bearer(token) == <<"Bearer", token>>

\* defaults.headers.common of the axios instance without 'Authorization'
NoHeader == <<>>

\* calls of the useApiClient methods that may be in flight together
ClientSlots == {"r1", "r2"}

\* a useApiClient call that is not running
NoApiCall == [pc |-> "idle", token |-> NoToken, header |-> NoHeader]

\* the errors a request fails with: an axios error with the response's
\* status, or one without a response (network failure, timeout)
HttpStatuses == {400, 401, 499, 500, 503}
NoResponse == [hasResponse |-> FALSE, status |-> 0]
Errors ==
  {NoResponse} \cup {[hasResponse |-> TRUE, status |-> s] : s \in HttpStatuses}

\* a query or mutation that has not run
NoFetch == [kind |-> "query", pc |-> "idle", failureCount |-> 0,
            attempts |-> 0, error |-> NoResponse]

\* the page as loaded: the apiClient singleton as constructed, nothing in
\* flight
NoClient == [auth |-> NoHeader,
             req |-> [s \in ClientSlots |-> NoApiCall],
             fetch |-> NoFetch]

Init ==
  /\ batch = NoBatch
  /\ client = NoClient
  /\ \/ rem = UploadedRemittance /\ lines = <<>> /\ audit_log = <<>>
     \/ rem = SeedRemittance /\ lines = SeedLines /\ audit_log = SeedAudit
  /\ payments = [p \in PayIds |-> "none"]
  /\ idem = NoPay
  /\ call = [c \in Callers |-> Idle]
  /\ last = Returned("none", NULL, Idle)
  /\ nops = 0

\* ------------------------------------------------------------ audit recorder
\* The handlers name the table, its columns and the actions as the task plan
\* does (audit_logs, action 'extraction_completed', ...); they are read as
\* their counterparts of the migration (audit_log, action_type
\* 'ai_extraction', ...).  An outcome has no counterpart: the migration's
\* CHECK decides which values a row may carry.
AuditEntry(action, outcome, user) ==
  [action |-> action, outcome |-> outcome]

\* the INSERT of create_audit_log goes through when the database answers
\* and the row passes the outcome CHECK; otherwise create_audit_log raises
InsertAccepted(entry, dbOk) == dbOk /\ entry.outcome \in AuditOutcomeCheck

create_audit_log(log, entry, dbOk) ==
  IF InsertAccepted(entry, dbOk) THEN Append(log, entry) ELSE log

\* -------------------------------------------------------------- call slots
Free(c) == call[c].pc = "idle"

CanStart(c) == Free(c) /\ nops < MaxOps

\* the call in slot c returns: the slot is free again
Return(c, op, result) ==
  /\ call' = [call EXCEPT ![c] = Idle]
  /\ last' = Returned(op, result, call[c])

\* the call in slot c goes on with the locals given
Continue(c, locals) ==
  /\ call' = [call EXCEPT ![c] = locals]
  /\ UNCHANGED last

\* the task a call slot runs once process_remittance has been entered
Processing(u) == [Idle EXCEPT !.op = "process", !.pc = "extract", !.user = u]

\* POST /{remittance_id}/process and process_remittance up to its first
\* write.  The endpoint checks membership only (it reads no status) and
\* queues the task; the task selects the remittance and its file and sets
\* status := DATA_RETRIEVED.  A missing file raises, and the except branch
\* sets ERROR_UNMATCHED without an audit entry.
Process(c, u, hasFile) ==
  /\ CanStart(c)
  /\ nops' = nops + 1
  /\ IF ~check_organisation_access(u)
     THEN /\ Return(c, "process", "AccessDenied")
          /\ UNCHANGED rem
     ELSE IF hasFile
     THEN /\ rem' = [rem EXCEPT !.status = DataRetrieved]
          /\ Continue(c, Processing(u))
     ELSE /\ rem' = [rem EXCEPT !.status = Unmatched]
          /\ Return(c, "process", "error")
  /\ UNCHANGED <<lines, audit_log, payments, idem>>
  /\ UNCHANGED <<batch, client>>

\* the lines process_remittance has inserted when insert number k + 1 raises
InsertLines(ls, f, k) ==
  ls \o [i \in 1..k |-> NewLine(Payments(f)[i])]

\* 'confidence_score': extraction_result['confidence'] / 100.0, in the unit
\* of the column
StoredConfidence(confidence) == (confidence * ScoreScale) \div 100

\* status written with the extracted data
ExtractedStatus(confidence) ==
  IF confidence > ConfidenceThreshold THEN AwaitingApproval ELSE Unmatched

\* process_remittance: the download of the file raises; the except branch
\* sets ERROR_UNMATCHED and returns
ProcessFetchFailed(c) ==
  /\ call[c].op = "process" /\ call[c].pc = "extract"
  /\ rem' = [rem EXCEPT !.status = Unmatched]
  /\ Return(c, "process", "error")
  /\ UNCHANGED <<lines, audit_log, payments, idem, nops>>
  /\ UNCHANGED <<batch, client>>

\* process_remittance: the extraction result carries 'error'
ProcessExtractionFailed(c, dbOk) ==
  /\ call[c].op = "process" /\ call[c].pc = "extract"
  /\ rem' = [rem EXCEPT !.status = Unmatched]
  /\ audit_log' = create_audit_log(
        audit_log, AuditEntry("ai_extraction", "error", "system"), dbOk)
  /\ Return(c, "process", "error")
  /\ UNCHANGED <<lines, payments, idem, nops>>
  /\ UNCHANGED <<batch, client>>

\* process_remittance: the extraction returns the payments f, TotalAmount
\* total and a confidence; k line inserts go through (k < Len(f): the next
\* one raises), dbOk is the audit insert.  Every exception ends in the except
\* branch, which sets ERROR_UNMATCHED and keeps what was written before.
ProcessExtracted(c, f, total, confidence, k, dbOk) ==
  /\ call[c].op = "process" /\ call[c].pc = "extract"
  /\ Len(lines) + Len(f) <= MaxLines
  /\ k \in 0..Len(f)
  /\ LET completed == AuditEntry("ai_extraction", "success", "system")
         extracted == [rem EXCEPT !.payment_date = "date",
                                  !.payment_amount = total,
                                  !.payment_reference = "reference",
                                  !.confidence_score =
                                      StoredConfidence(confidence),
                                  !.status = ExtractedStatus(confidence)]
     IN /\ lines' = InsertLines(lines, f, k)
        /\ audit_log' = IF k = Len(f)
                        THEN create_audit_log(audit_log, completed, dbOk)
                        ELSE audit_log
        /\ IF k = Len(f) /\ InsertAccepted(completed, dbOk)
           THEN /\ rem' = extracted
                /\ Return(c, "process", "success")
           ELSE /\ rem' = [extracted EXCEPT !.status = Unmatched]
                /\ Return(c, "process", "error")
  /\ UNCHANGED <<payments, idem, nops>>
  /\ UNCHANGED <<batch, client>>

\* a retry endpoint that also takes a failed export back
RetryStatusesFailed == {Unmatched, DataRetrieved, ExportFailed}

\* statuses the retry endpoint accepts
RetryStatuses == {Unmatched, DataRetrieved}

\* a reset that clears the header and leaves the status
ResetHeader(r) ==
  [r EXCEPT !.payment_date = NULL,
            !.payment_amount = NONE,
            !.payment_reference = NULL,
            !.confidence_score = NONE]

\* retry_extraction's reset of the header
ResetExtraction(r) ==
  [r EXCEPT !.status = DataRetrieved,
            !.payment_date = NULL,
            !.payment_amount = NONE,
            !.payment_reference = NULL,
            !.confidence_score = NONE]

\* POST /{remittance_id}/retry and retry_extraction: the access and status
\* checks raise 403 and 400 before anything is written or logged; then the
\* lines are deleted, the header reset and the audit entry written with
\* outcome 'initiated'; only after that insert does processing start again.
Retry(c, u, dbOk) ==
  /\ CanStart(c)
  /\ nops' = nops + 1
  /\ LET initiated == AuditEntry("retry", "initiated", u)
     IN IF ~check_organisation_access(u)
        THEN /\ Return(c, "retry", "AccessDenied")
             /\ UNCHANGED <<rem, lines, audit_log>>
        ELSE IF rem.status \notin RetryStatuses
        THEN /\ Return(c, "retry", "InvalidTransition")
             /\ UNCHANGED <<rem, lines, audit_log>>
        ELSE /\ lines' = <<>>
             /\ rem' = ResetExtraction(rem)
             /\ audit_log' = create_audit_log(audit_log, initiated, dbOk)
             /\ IF InsertAccepted(initiated, dbOk)
                THEN Continue(c, Processing(u))
                ELSE Return(c, "retry", "error")
  /\ UNCHANGED <<payments, idem>>
  /\ UNCHANGED <<batch, client>>

\* statuses in which save-overrides lets the lines be edited
EditableStatuses == {Unmatched, AwaitingApproval}

\* a save-overrides request: the keys present for one line, and the flag
Requests ==
  [line : 1..MaxLines,
   manual_paid_amount : Amounts \cup {Absent},
   override_invoice_id : {"INV-002", NULL},
   approve : BOOLEAN]

\* an UPDATE that writes the corrected amount over the extracted one
UpdateLinesAi(ls, req) ==
  [i \in DOMAIN ls |->
     IF i # req.line THEN ls[i]
     ELSE GeneratedColumns(
            [ls[i] EXCEPT
               !.ai_paid_amount =
                  IF req.manual_paid_amount # Absent
                  THEN req.manual_paid_amount ELSE @,
               !.override_invoice_id =
                  IF req.override_invoice_id # NULL
                  THEN req.override_invoice_id ELSE @])]

\* the UPDATE of the line named in the request; the generated columns follow
UpdateLines(ls, req) ==
  [i \in DOMAIN ls |->
     IF i # req.line THEN ls[i]
     ELSE GeneratedColumns(
            [ls[i] EXCEPT
               !.manual_paid_amount =
                  IF req.manual_paid_amount # Absent
                  THEN req.manual_paid_amount ELSE @,
               !.override_invoice_id =
                  IF req.override_invoice_id # NULL
                  THEN req.override_invoice_id ELSE @])]

\* save_remittance_overrides up to the status check
SaveBegin(c, u, req) ==
  /\ CanStart(c)
  /\ nops' = nops + 1
  /\ IF ~check_organisation_access(u)
     THEN Return(c, "save", "AccessDenied")
     ELSE IF rem.status \notin EditableStatuses
     THEN Return(c, "save", "InvalidTransition")
     ELSE Continue(c, [Idle EXCEPT !.op = "save", !.pc = "write",
                                   !.user = u, !.req = req])
  /\ UNCHANGED <<rem, lines, audit_log, payments, idem>>
  /\ UNCHANGED <<batch, client>>

\* the status save-overrides writes when the request asks for approval
ApprovedStatus == ExportedUnreconciled

\* save_remittance_overrides after the status check: the line updates, the
\* status update when approving (the payment in Xero is a TODO), the audit
\* entry.  An exception becomes HTTP 500 and undoes nothing.
SaveWrite(c, dbOk) ==
  /\ call[c].op = "save" /\ call[c].pc = "write"
  /\ LET req == call[c].req
         u == call[c].user
         entry == IF req.approve
                  THEN AuditEntry("approval", "success", u)
                  ELSE AuditEntry("manual_edit", "success", u)
     IN /\ lines' = UpdateLines(lines, req)
        /\ rem' = IF req.approve
                  THEN [rem EXCEPT !.status = ApprovedStatus]
                  ELSE rem
        /\ audit_log' = create_audit_log(audit_log, entry, dbOk)
        /\ Return(c, IF req.approve THEN "save_approve" ELSE "save",
                  IF InsertAccepted(entry, dbOk) THEN "success" ELSE "error")
  /\ UNCHANGED <<payments, idem, nops>>
  /\ UNCHANGED <<batch, client>>

\* ------------------------------------------------ external accounting gateway
\* CreatePayment(idempotencyKey, ...): the key is derived from the remittance
\* id, so a second call under the key answers with the payment of the first.
FreshPay == CHOOSE p \in PayIds : \A q \in PayIds : payments[q] = "none" => p <= q

CreatePaymentId == IF idem # NoPay THEN idem ELSE FreshPay

\* a gateway that creates a payment on every call, whatever the key
CreatePaymentAnew(ps) == [ps EXCEPT ![FreshPay] = "live"]

CreatePayment(ps) ==
  IF idem # NoPay THEN ps ELSE [ps EXCEPT ![FreshPay] = "live"]

\* GetPaymentStatus(paymentId) -> reconciled | pending | missing
GetPaymentStatus(p) ==
  IF p = NoPay THEN "missing"
  ELSE CASE payments[p] = "live" -> "pending"
         [] payments[p] = "reconciled" -> "reconciled"
         [] OTHER -> "missing"

\* a gateway whose DeletePayment fails on a payment that is already gone
DeleteRefusedOnceGone(p) ==
  p # NoPay /\ payments[p] \in {"reconciled", "deleted"}

\* DeletePayment(paymentId): a reconciled payment is refused; deleting a
\* payment that is already gone answers success again (the call is retryable)
DeleteRefused(p) == p # NoPay /\ payments[p] = "reconciled"

DeletePayment(ps, p) ==
  IF p # NoPay /\ ps[p] = "live" THEN [ps EXCEPT ![p] = "deleted"] ELSE ps

\* the bank statement line arrives: the payment is reconciled in Xero
GatewayReconcile(p) ==
  /\ payments[p] = "live"
  /\ payments' = [payments EXCEPT ![p] = "reconciled"]
  /\ UNCHANGED <<rem, lines, audit_log, idem, call, last, nops>>
  /\ UNCHANGED <<batch, client>>

\* --------------------------------------------------------------- Approve
\* every line carries a manual invoice match
FullyResolved(ls) == \A i \in DOMAIN ls : ls[i].override_invoice_id # NULL

\* a precondition that takes a failed export back for another attempt
ApprovableOrFailed(r, ls) ==
  \/ r.status \in {AwaitingApproval, ExportFailed}
  \/ r.status = Unmatched /\ FullyResolved(ls)

Approvable(r, ls) ==
  \/ r.status = AwaitingApproval
  \/ r.status = Unmatched /\ FullyResolved(ls)

\* the error of an Approve whose status precondition fails
ApproveRejection(r) ==
  IF r.status \in {ExportedUnreconciled, ExportedReconciled, ExportFailed}
  THEN "AlreadyProcessed" ELSE "InvalidTransition"

\* Approve, step 0: Authorize, then the status precondition
ApproveBegin(c, u, dbOk) ==
  /\ CanStart(c)
  /\ nops' = nops + 1
  /\ IF ~(check_organisation_access(u) /\ can_approve(u))
     THEN /\ Return(c, "approve", "AccessDenied")
          /\ UNCHANGED audit_log
     ELSE IF ~Approvable(rem, lines)
     THEN /\ Return(c, "approve", ApproveRejection(rem))
          /\ audit_log' = create_audit_log(
                audit_log, AuditEntry("approval", "rejected", u), dbOk)
     ELSE /\ Continue(c, [Idle EXCEPT !.op = "approve", !.pc = "create",
                                      !.user = u])
          /\ UNCHANGED audit_log
  /\ UNCHANGED <<rem, lines, payments, idem>>
  /\ UNCHANGED <<batch, client>>

\* Approve, step 2: the gateway call, outside the local transaction
ApproveCreate(c, answer) ==
  /\ call[c].op = "approve" /\ call[c].pc = "create"
  /\ answer \in {"ok", "rejected", "transient"}
  /\ IF answer = "ok"
     THEN /\ payments' = CreatePayment(payments)
          /\ idem' = CreatePaymentId
          /\ Continue(c, [call[c] EXCEPT !.pc = "commit", !.gw = answer,
                                         !.pay = CreatePaymentId])
     ELSE /\ Continue(c, [call[c] EXCEPT !.pc = "commit", !.gw = answer])
          /\ UNCHANGED <<payments, idem>>
  /\ UNCHANGED <<rem, lines, audit_log, nops>>
  /\ UNCHANGED <<batch, client>>

\* the exported remittance: amount frozen to the line sum, payment recorded
Exported(r, ls, u, p) ==
  [r EXCEPT !.status = ExportedUnreconciled,
            !.payment_amount = SumFinal(ls),
            !.xero_payment_id = p,
            !.approved_at = "now",
            !.approved_by = u,
            !.exported_at = "now"]

\* a failed export that keeps the amount frozen in step 1
ExportFailureFrozen(r) ==
  [r EXCEPT !.status = ExportFailed, !.payment_amount = SumFinal(lines)]

\* the remittance after a failed export: the status only
ExportFailure(r) == [r EXCEPT !.status = ExportFailed]

\* Approve, steps 3 and 4: one transaction that rereads the status, writes
\* the result of the gateway call and the audit entry, or nothing at all
ApproveCommit(c, dbOk) ==
  /\ call[c].op = "approve" /\ call[c].pc = "commit"
  /\ LET u == call[c].user
         success == AuditEntry("approval", "success", u)
         failure == AuditEntry("xero_export", "error", u)
     IN IF ~Approvable(rem, lines)
        THEN /\ Return(c, "approve", "AlreadyProcessed")
             /\ audit_log' = create_audit_log(
                   audit_log, AuditEntry("approval", "rejected", u), dbOk)
             /\ UNCHANGED rem
        ELSE IF ~InsertAccepted(success, dbOk)
        THEN /\ Return(c, "approve", "AuditWriteFailed")
             /\ UNCHANGED <<rem, audit_log>>
        ELSE IF call[c].gw = "ok"
        THEN /\ rem' = Exported(rem, lines, u, call[c].pay)
             /\ audit_log' = create_audit_log(audit_log, success, dbOk)
             /\ Return(c, "approve", "success")
        ELSE /\ rem' = ExportFailure(rem)
             /\ audit_log' = create_audit_log(audit_log, failure, dbOk)
             /\ Return(c, "approve", IF call[c].gw = "transient"
                                     THEN "ExternalTransient"
                                     ELSE "ExternalRejected")
  /\ UNCHANGED <<lines, payments, idem, nops>>
  /\ UNCHANGED <<batch, client>>

\* ------------------------------------------------------------- Unapprove
\* the unapproved remittance
Unexported(r) ==
  [r EXCEPT !.status = AwaitingApproval,
            !.xero_payment_id = NoPay,
            !.exported_at = NULL,
            !.approved_at = NULL,
            !.approved_by = NULL]

\* Unapprove, step 0 and 1: Authorize, the status precondition, and the
\* query of the payment's reconciliation state
UnapproveBegin(c, u, answer, dbOk) ==
  /\ CanStart(c)
  /\ nops' = nops + 1
  /\ answer \in {"ok", "transient"}
  /\ LET reject(r, outcome) ==
           /\ Return(c, "unapprove", r)
           /\ audit_log' = create_audit_log(
                 audit_log, AuditEntry("unapproval", outcome, u), dbOk)
     IN IF ~(check_organisation_access(u) /\ can_approve(u))
        THEN /\ Return(c, "unapprove", "AccessDenied")
             /\ UNCHANGED audit_log
        ELSE IF rem.status # ExportedUnreconciled
        THEN reject("InvalidTransition", "rejected")
        ELSE IF answer = "transient"
        THEN reject("ExternalTransient", "error")
        ELSE IF GetPaymentStatus(rem.xero_payment_id) = "reconciled"
        THEN reject("PaymentReconciled", "rejected")
        ELSE /\ Continue(c, [Idle EXCEPT
                   !.op = "unapprove", !.pc = "delete", !.user = u,
                   !.seen = GetPaymentStatus(rem.xero_payment_id),
                   !.pay = rem.xero_payment_id])
             /\ UNCHANGED audit_log
  /\ UNCHANGED <<rem, lines, payments, idem>>
  /\ UNCHANGED <<batch, client>>

\* Unapprove, step 2: the deletion of the external payment, outside the
\* local transaction
UnapproveDelete(c, answer) ==
  /\ call[c].op = "unapprove" /\ call[c].pc = "delete"
  /\ answer \in {"ok", "transient"}
  /\ LET p == call[c].pay
         gw == IF answer = "transient" THEN "transient"
               ELSE IF DeleteRefused(p) THEN "refused" ELSE "ok"
     IN /\ payments' = IF gw = "ok" THEN DeletePayment(payments, p)
                       ELSE payments
        /\ Continue(c, [call[c] EXCEPT !.pc = "commit", !.gw = gw])
  /\ UNCHANGED <<rem, lines, audit_log, idem, nops>>
  /\ UNCHANGED <<batch, client>>

\* a commit that trusts the status read before the gateway call
ExportedWhenRead(r) == TRUE

\* the guard of the compare-and-set of Unapprove and of the poller: the
\* status, reread in the transaction, is still ExportedUnreconciled
StillExported(r) == r.status = ExportedUnreconciled

\* a commit that goes ahead on any answer of the gateway
DeletionAnswered(locals) == locals.gw # NULL

\* the local write of Unapprove is due only when the deletion succeeded
DeletionSucceeded(locals) == locals.gw = "ok"

\* Unapprove, step 3: a failed deletion is reported and changes nothing; a
\* successful one is followed by one transaction that rereads the status,
\* clears the exported fields and writes the audit entry, or nothing at all
UnapproveCommit(c, dbOk) ==
  /\ call[c].op = "unapprove" /\ call[c].pc = "commit"
  /\ LET u == call[c].user
         success == AuditEntry("unapproval", "success", u)
         reject(r, outcome) ==
           /\ Return(c, "unapprove", r)
           /\ audit_log' = create_audit_log(
                 audit_log, AuditEntry("unapproval", outcome, u), dbOk)
           /\ UNCHANGED rem
     IN IF ~DeletionSucceeded(call[c])
        THEN IF call[c].gw = "transient"
             THEN reject("ExternalTransient", "error")
             ELSE reject("ExternalDeleteFailed", "rejected")
        ELSE IF ~StillExported(rem)
        THEN reject("AlreadyProcessed", "rejected")
        ELSE IF ~InsertAccepted(success, dbOk)
        THEN /\ Return(c, "unapprove", "AuditWriteFailed")
             /\ UNCHANGED <<rem, audit_log>>
        ELSE /\ rem' = Unexported(rem)
             /\ audit_log' = create_audit_log(audit_log, success, dbOk)
             /\ Return(c, "unapprove", "success")
  /\ UNCHANGED <<lines, payments, idem, nops>>
  /\ UNCHANGED <<batch, client>>

\* the process dies between the gateway call and the local commit; the
\* slot is lost with it
Crash(c) ==
  /\ call[c].op \in {"approve", "unapprove"} /\ call[c].pc = "commit"
  /\ call' = [call EXCEPT ![c].pc = "crashed"]
  /\ UNCHANGED <<rem, lines, audit_log, payments, idem, last, nops>>
  /\ UNCHANGED <<batch, client>>

\* ------------------------------------------------- reconciliation poller
\* a poll that looks at every remittance
InBatchAny(r) == TRUE

\* the poll's selection: every remittance in ExportedUnreconciled
InBatch(r) == r.status = ExportedUnreconciled

\* a failed query logged as a warning
QueryWarningOutcome == "warning"

\* the outcome of the audit entry of a failed query
QueryFailureOutcome == "error"

\* PollOrganisation for ACME, first half: the remittance is in the batch when
\* it is ExportedUnreconciled; the gateway is asked for its payment's status
PollQuery(c, answer, dbOk) ==
  /\ CanStart(c)
  /\ nops' = nops + 1
  /\ answer \in {"ok", "transient"}
  /\ IF ~InBatch(rem)
     THEN /\ Return(c, "poll", "NotInBatch")
          /\ UNCHANGED audit_log
     ELSE IF answer = "transient"
     THEN /\ Return(c, "poll", "ExternalTransient")
          /\ audit_log' = create_audit_log(
                audit_log,
                AuditEntry("xero_sync", QueryFailureOutcome, "system"), dbOk)
     ELSE /\ Continue(c, [Idle EXCEPT
                !.op = "poll", !.pc = "commit", !.user = "system",
                !.seen = GetPaymentStatus(rem.xero_payment_id),
                !.pay = rem.xero_payment_id])
          /\ UNCHANGED audit_log
  /\ UNCHANGED <<rem, lines, payments, idem>>
  /\ UNCHANGED <<batch, client>>

\* PollOrganisation, second half: the transition the answer asks for, in one
\* transaction that rereads the status and writes the audit entry
PollCommit(c, dbOk) ==
  /\ call[c].op = "poll" /\ call[c].pc = "commit"
  /\ LET settled == AuditEntry("xero_sync", "success", "system")
         diverged == AuditEntry("xero_sync", "error", "system")
     IN IF call[c].seen = "pending"
        THEN /\ Return(c, "poll", "Pending")
             /\ UNCHANGED <<rem, audit_log>>
        ELSE IF ~StillExported(rem)
        THEN /\ Return(c, "poll", "AlreadyProcessed")
             /\ audit_log' = create_audit_log(
                   audit_log, AuditEntry("xero_sync", "rejected", "system"),
                   dbOk)
             /\ UNCHANGED rem
        ELSE IF ~InsertAccepted(settled, dbOk)
        THEN /\ Return(c, "poll", "AuditWriteFailed")
             /\ UNCHANGED <<rem, audit_log>>
        ELSE IF call[c].seen = "reconciled"
        THEN /\ rem' = [rem EXCEPT !.status = ExportedReconciled]
             /\ audit_log' = create_audit_log(audit_log, settled, dbOk)
             /\ Return(c, "poll", "success")
        ELSE /\ rem' = [rem EXCEPT !.status = ExportFailed]
             /\ audit_log' = create_audit_log(audit_log, diverged, dbOk)
             /\ Return(c, "poll", "PaymentMissing")
  /\ UNCHANGED <<lines, payments, idem, nops>>
  /\ UNCHANGED <<batch, client>>

\* ------------------------------------------------------ SoftDelete / Restore
\* a precondition that lets a remittance awaiting approval be deleted
BlockingExported == {ExportedUnreconciled, ExportedReconciled}

BlockingStatuses == {AwaitingApproval, ExportedUnreconciled, ExportedReconciled}

\* the rejection names the status that blocks the deletion
Blocked(status) ==
  [Returned("soft_delete", "DeletionBlocked", Idle) EXCEPT !.reason = status]

\* a deletion recorded in the status column as well
SoftDeletedStatus(r, u) ==
  [r EXCEPT !.deleted_at = "now", !.deleted_by = u, !.status = "SoftDeleted"]

\* the deleted remittance: the flag is deleted_at, with deleted_by
SoftDeleted(r, u) == [r EXCEPT !.deleted_at = "now", !.deleted_by = u]

\* the restored remittance
Restored(r) == [r EXCEPT !.deleted_at = NULL, !.deleted_by = NULL]

SoftDelete(c, u, dbOk) ==
  /\ CanStart(c)
  /\ nops' = nops + 1
  /\ LET success == AuditEntry("soft_delete", "success", u)
     IN IF ~(check_organisation_access(u) /\ can_approve(u))
        THEN /\ Return(c, "soft_delete", "AccessDenied")
             /\ UNCHANGED <<rem, audit_log>>
        ELSE IF rem.status \in BlockingStatuses
        THEN /\ last' = Blocked(rem.status)
             /\ audit_log' = create_audit_log(
                   audit_log, AuditEntry("soft_delete", "rejected", u), dbOk)
             /\ UNCHANGED <<rem, call>>
        ELSE IF ~InsertAccepted(success, dbOk)
        THEN /\ Return(c, "soft_delete", "AuditWriteFailed")
             /\ UNCHANGED <<rem, audit_log>>
        ELSE /\ rem' = SoftDeleted(rem, u)
             /\ audit_log' = create_audit_log(audit_log, success, dbOk)
             /\ Return(c, "soft_delete", "success")
  /\ UNCHANGED <<lines, payments, idem>>
  /\ UNCHANGED <<batch, client>>

Restore(c, u, dbOk) ==
  /\ CanStart(c)
  /\ nops' = nops + 1
  /\ LET success == AuditEntry("restore", "success", u)
     IN IF ~(check_organisation_access(u) /\ can_approve(u))
        THEN /\ Return(c, "restore", "AccessDenied")
             /\ UNCHANGED <<rem, audit_log>>
        ELSE IF rem.deleted_at = NULL
        THEN /\ Return(c, "restore", "InvalidTransition")
             /\ audit_log' = create_audit_log(
                   audit_log, AuditEntry("restore", "rejected", u), dbOk)
             /\ UNCHANGED rem
        ELSE IF ~InsertAccepted(success, dbOk)
        THEN /\ Return(c, "restore", "AuditWriteFailed")
             /\ UNCHANGED <<rem, audit_log>>
        ELSE /\ rem' = Restored(rem)
             /\ audit_log' = create_audit_log(audit_log, success, dbOk)
             /\ Return(c, "restore", "success")
  /\ UNCHANGED <<lines, payments, idem>>
  /\ UNCHANGED <<batch, client>>

\* --------------------------------------------------------------- behaviours
Next ==
  \/ \E c \in Callers, u \in Users, hasFile \in BOOLEAN :
       Process(c, u, hasFile)
  \/ \E c \in Callers : ProcessFetchFailed(c)
  \/ \E c \in Callers, dbOk \in BOOLEAN : ProcessExtractionFailed(c, dbOk)
  \/ \E c \in Callers, f \in PaymentLists, total \in TotalAmounts,
        confidence \in Confidences, k \in 0..MaxLines, dbOk \in BOOLEAN :
       ProcessExtracted(c, f, total, confidence, k, dbOk)
  \/ \E c \in Callers, u \in Users, dbOk \in BOOLEAN : Retry(c, u, dbOk)
  \/ \E c \in Callers, u \in Users, req \in Requests : SaveBegin(c, u, req)
  \/ \E c \in Callers, dbOk \in BOOLEAN : SaveWrite(c, dbOk)
  \/ \E c \in Callers, u \in Users, dbOk \in BOOLEAN : ApproveBegin(c, u, dbOk)
  \/ \E c \in Callers, answer \in {"ok", "rejected", "transient"} :
       ApproveCreate(c, answer)
  \/ \E c \in Callers, dbOk \in BOOLEAN : ApproveCommit(c, dbOk)
  \/ \E c \in Callers, u \in Users, answer \in {"ok", "transient"},
        dbOk \in BOOLEAN : UnapproveBegin(c, u, answer, dbOk)
  \/ \E c \in Callers, answer \in {"ok", "transient"} :
       UnapproveDelete(c, answer)
  \/ \E c \in Callers, dbOk \in BOOLEAN : UnapproveCommit(c, dbOk)
  \/ \E c \in Callers : Crash(c)
  \/ \E c \in Callers, answer \in {"ok", "transient"}, dbOk \in BOOLEAN :
       PollQuery(c, answer, dbOk)
  \/ \E c \in Callers, dbOk \in BOOLEAN : PollCommit(c, dbOk)
  \/ \E c \in Callers, u \in Users, dbOk \in BOOLEAN : SoftDelete(c, u, dbOk)
  \/ \E c \in Callers, u \in Users, dbOk \in BOOLEAN : Restore(c, u, dbOk)
  \/ \E p \in PayIds : GatewayReconcile(p)

Spec == Init /\ [][Next]_vars

\* ------------------------------------------------- PollOrganisation batches
\* what PollOrganisation returns for one ExportedUnreconciled remittance, and
\* the status it leaves: the answer of the gateway's GetPaymentStatus (or a
\* transient error) and the audit insert decide
TransitionResult(answer, dbOk) ==
  IF answer = "transient"
  THEN [result |-> "ExternalTransient", status |-> ExportedUnreconciled]
  ELSE IF answer = "pending"
  THEN [result |-> "Pending", status |-> ExportedUnreconciled]
  ELSE IF ~dbOk
  THEN [result |-> "AuditWriteFailed", status |-> ExportedUnreconciled]
  ELSE IF answer = "reconciled"
  THEN [result |-> "success", status |-> ExportedReconciled]
  ELSE [result |-> "PaymentMissing", status |-> ExportFailed]

\* a loop that gives the batch up at the first gateway error
AbortOnError(todo, r, result) ==
  IF result = "ExternalTransient" THEN {} ELSE todo \ {r}

\* the remittances left once r is evaluated, whatever the result
Remaining(todo, r, result) == todo \ {r}

\* the scheduler triggers PollOrganisation(o): it selects every remittance of
\* the organisation that is ExportedUnreconciled
PollOrganisationStart(o) ==
  /\ batch.pc[o] = "idle"
  /\ LET found == {r \in BatchRems :
                     batch.status[o][r] = ExportedUnreconciled}
     IN batch' = [batch EXCEPT !.pc[o] = "running",
                               !.selected[o] = found,
                               !.todo[o] = found]
  /\ UNCHANGED <<ledger, client>>

\* PollOrganisation(o) evaluates the next remittance of its batch
PollOrganisationStep(o, answer, dbOk) ==
  /\ batch.pc[o] = "running" /\ batch.todo[o] # {}
  /\ LET r == CHOOSE x \in batch.todo[o] : \A y \in batch.todo[o] : x <= y
         t == TransitionResult(answer, dbOk)
     IN batch' = [batch EXCEPT
                    !.status[o][r] = t.status,
                    !.results[o][r] = t.result,
                    !.todo[o] = Remaining(batch.todo[o], r, t.result)]
  /\ UNCHANGED <<ledger, client>>

\* PollOrganisation(o) returns its results
PollOrganisationReturn(o) ==
  /\ batch.pc[o] = "running" /\ batch.todo[o] = {}
  /\ batch' = [batch EXCEPT !.pc[o] = "done"]
  /\ UNCHANGED <<ledger, client>>

\* two organisations with remittances in any of three statuses, the ledger
\* of the seeded remittance beside them
InitBatch ==
  /\ client = NoClient
  /\ batch \in Batches({AwaitingApproval, ExportedUnreconciled,
                        ExportedReconciled})
  /\ rem = SeedRemittance /\ lines = SeedLines /\ audit_log = SeedAudit
  /\ payments = [p \in PayIds |-> "none"]
  /\ idem = NoPay
  /\ call = [c \in Callers |-> Idle]
  /\ last = Returned("none", NULL, Idle)
  /\ nops = 0

NextBatch ==
  \/ \E o \in Orgs : PollOrganisationStart(o)
  \/ \E o \in Orgs,
        answer \in {"reconciled", "pending", "missing", "transient"},
        dbOk \in BOOLEAN : PollOrganisationStep(o, answer, dbOk)
  \/ \E o \in Orgs : PollOrganisationReturn(o)

\* the scheduler may never trigger a poll; a poll that runs goes through its
\* batch and returns
SpecBatch ==
  /\ InitBatch /\ [][NextBatch]_vars
  /\ \A o \in Orgs :
       /\ WF_vars(\E answer \in {"reconciled", "pending", "missing",
                                 "transient"}, dbOk \in BOOLEAN :
                    PollOrganisationStep(o, answer, dbOk))
       /\ WF_vars(PollOrganisationReturn(o))

\* ------------------------------------------------------- web client actions
\* error?.response?.status >= 400 && error?.response?.status < 500: an error
\* without a response has no status and the comparison is false
ClientError(error) ==
  error.hasResponse /\ error.status >= 400 /\ error.status < 500

\* a query policy that allows one retry more
QueryRetryInclusive(failureCount, error) ==
  IF ClientError(error) THEN FALSE ELSE failureCount <= QueryRetries

\* defaultOptions.queries.retry
QueryRetry(failureCount, error) ==
  IF ClientError(error) THEN FALSE ELSE failureCount < QueryRetries

\* defaultOptions.mutations.retry
MutationRetry(failureCount, error) ==
  IF ClientError(error) THEN FALSE ELSE failureCount < MutationRetries

\* the policy the QueryClient applies to a request of this kind
ShouldRetry(kind, failureCount, error) ==
  IF kind = "query" THEN QueryRetry(failureCount, error)
  ELSE MutationRetry(failureCount, error)

\* a query is fetched or a mutation is submitted: the first attempt runs
FetchStart(kind) ==
  /\ client.fetch.pc # "running"
  /\ client' = [client EXCEPT !.fetch =
                  [kind |-> kind, pc |-> "running", failureCount |-> 0,
                   attempts |-> 1, error |-> NoResponse]]
  /\ UNCHANGED <<ledger, batch>>

\* the running attempt fails: the library asks the policy with the number of
\* failures so far, and either counts the failure and runs the next attempt
\* or gives the request up
FetchFails(error) ==
  /\ client.fetch.pc = "running"
  /\ client.fetch.attempts < MaxAttempts
  /\ LET f == client.fetch
     IN client' = [client EXCEPT !.fetch =
          IF ShouldRetry(f.kind, f.failureCount, error)
          THEN [f EXCEPT !.failureCount = f.failureCount + 1,
                         !.attempts = f.attempts + 1,
                         !.error = error]
          ELSE [f EXCEPT !.pc = "failed", !.error = error]]
  /\ UNCHANGED <<ledger, batch>>

\* the running attempt succeeds
FetchSucceeds ==
  /\ client.fetch.pc = "running"
  /\ client' = [client EXCEPT !.fetch.pc = "done"]
  /\ UNCHANGED <<ledger, batch>>

\* apiClient.setAuthToken
setAuthToken(auth, token) == Bearer(token)

\* if (token) { apiClient.setAuthToken(token); }
SetAuthTokenIfAny(auth, token) ==
  IF token # NoToken THEN setAuthToken(auth, token) ELSE auth

\* a component calls get, post, put, patch or delete of useApiClient; the
\* five bodies are the same: the call awaits getToken
ApiCall(s) ==
  /\ client.req[s].pc = "idle"
  /\ client' = [client EXCEPT !.req[s].pc = "getToken"]
  /\ UNCHANGED <<ledger, batch>>

\* getToken resolves with a token or none; the rest of the body runs without
\* another await: the header of the shared instance is set when there is a
\* token, and the request leaves with the instance's defaults
ApiSend(s, token) ==
  /\ client.req[s].pc = "getToken"
  /\ LET auth == SetAuthTokenIfAny(client.auth, token)
     IN client' = [client EXCEPT
                     !.auth = auth,
                     !.req[s] = [pc |-> "sent", token |-> token,
                                 header |-> auth]]
  /\ UNCHANGED <<ledger, batch>>

\* the response arrives and the call returns
ApiResponse(s) ==
  /\ client.req[s].pc = "sent"
  /\ client' = [client EXCEPT !.req[s] = NoApiCall]
  /\ UNCHANGED <<ledger, batch>>

\* the ledger of the seeded remittance beside a freshly loaded page
InitClient ==
  /\ client = NoClient
  /\ batch = NoBatch
  /\ rem = SeedRemittance /\ lines = SeedLines /\ audit_log = SeedAudit
  /\ payments = [p \in PayIds |-> "none"]
  /\ idem = NoPay
  /\ call = [c \in Callers |-> Idle]
  /\ last = Returned("none", NULL, Idle)
  /\ nops = 0

NextClient ==
  \/ \E kind \in {"query", "mutation"} : FetchStart(kind)
  \/ \E error \in Errors : FetchFails(error)
  \/ FetchSucceeds
  \/ \E s \in ClientSlots : ApiCall(s)
  \/ \E s \in ClientSlots, token \in Tokens \cup {NoToken} : ApiSend(s, token)
  \/ \E s \in ClientSlots : ApiResponse(s)

SpecClient == InitClient /\ [][NextClient]_vars

\* ------------------------------------------------------------------- claims

\* C1: of two approvals of one remittance that run concurrently only the
\* first takes effect: an approving call (the /approve entry point or
\* save-overrides with approve set) whose write finds the remittance already
\* ExportedUnreconciled fails with AlreadyProcessed, writes nothing and
\* creates no payment.
C1_SecondApproveAlreadyProcessed ==
  [][\A c \in Callers :
       LET approving ==
             \/ call[c].op = "approve" /\ call[c].pc = "commit"
             \/ /\ call[c].op = "save" /\ call[c].pc = "write"
                /\ call[c].req.approve
       IN (/\ approving
           /\ call'[c].pc = "idle"
           /\ rem.status = ExportedUnreconciled)
          => /\ last'.result = "AlreadyProcessed"
             /\ rem' = rem
             /\ payments' = payments]_vars

\* C2: a step of Unapprove changes status, xero_payment_id, exported_at,
\* approved_at or approved_by only if it is the commit of a call to which the
\* gateway answered the DeletePayment with success; every other step of
\* Unapprove (rejection, refused or failed deletion, crash) keeps them.
C2_UnapproveOnlyAfterDelete ==
  [][\A c \in Callers :
       LET exported(r) ==
             <<r.status, r.xero_payment_id, r.exported_at, r.approved_at,
               r.approved_by>>
           begins ==
             /\ call[c].pc = "idle" /\ nops' = nops + 1
             /\ \/ call'[c].op = "unapprove"
                \/ call' = call /\ last'.op = "unapprove"
           goesOn == call[c].op = "unapprove" /\ call'[c] # call[c]
       IN ((begins \/ goesOn) /\ exported(rem') # exported(rem))
          => /\ call[c].pc = "commit"
             /\ call[c].gw = "ok"
             /\ last'.result = "success"]_vars

\* C2 witness: an Unapprove has returned success after the gateway deleted
\* the payment, and the remittance is back in AwaitingApproval.
C2_Witness ==
  /\ last.op = "unapprove" /\ last.result = "success" /\ last.gw = "ok"
  /\ last.pay # NoPay /\ payments[last.pay] = "deleted"
  /\ rem.status = AwaitingApproval /\ rem.xero_payment_id = NoPay

\* C3: the crash of an Unapprove between the accepted deletion and the local
\* commit leaves the remittance as it was (ExportedUnreconciled); a repeated
\* Unapprove for the same payment is never refused over the payment being
\* gone, and when the gateway answers, the remittance is still exported and
\* the audit entry is written, it succeeds and ends in AwaitingApproval with
\* xero_payment_id cleared.
C3_RepeatAfterCrash ==
  [][\A c \in Callers :
       LET crashes ==
             /\ call[c].op = "unapprove" /\ call[c].pc = "commit"
             /\ call[c].gw = "ok" /\ call'[c].pc = "crashed"
           lost(d) ==
             /\ d # c /\ call[d].op = "unapprove" /\ call[d].pc = "crashed"
             /\ call[d].gw = "ok" /\ call[d].pay = call[c].pay
           repeats ==
             /\ call[c].op = "unapprove" /\ call[c].pc = "commit"
             /\ call'[c].pc = "idle"
             /\ \E d \in Callers : lost(d)
       IN /\ crashes => rem' = rem
          /\ repeats =>
               /\ last'.result \in {"success", "ExternalTransient",
                                    "AuditWriteFailed", "AlreadyProcessed"}
               /\ (/\ call[c].gw # "transient"
                   /\ rem.status = ExportedUnreconciled
                   /\ last'.result # "AuditWriteFailed")
                  => /\ last'.result = "success"
                     /\ rem'.status = AwaitingApproval
                     /\ rem'.xero_payment_id = NoPay]_vars

\* C3 witness: one Unapprove crashed after the gateway had deleted the
\* payment, and the repeated Unapprove, which found the payment gone, has
\* returned success.
C3_Witness ==
  /\ \E d \in Callers :
       /\ call[d].op = "unapprove" /\ call[d].pc = "crashed"
       /\ call[d].gw = "ok" /\ call[d].pay = last.pay
  /\ last.op = "unapprove" /\ last.result = "success"
  /\ last.seen = "missing" /\ last.pay # NoPay
  /\ rem.status = AwaitingApproval /\ rem.xero_payment_id = NoPay

\* C4: the status of a remittance changes only along the edges of the
\* transition table, whatever operation asks for the change.
C4_OnlyTableEdges ==
  [][LET edges ==
           {<<Uploaded, DataRetrieved>>,
            <<DataRetrieved, AwaitingApproval>>,
            <<DataRetrieved, Unmatched>>,
            <<Unmatched, AwaitingApproval>>,
            <<Unmatched, DataRetrieved>>,
            <<AwaitingApproval, ExportedUnreconciled>>,
            <<ExportedUnreconciled, ExportedReconciled>>,
            <<ExportedUnreconciled, AwaitingApproval>>,
            <<AwaitingApproval, ExportFailed>>,
            <<ExportedUnreconciled, ExportFailed>>}
     IN rem'.status # rem.status => <<rem.status, rem'.status>> \in edges]_vars

\* C5: when the call that returned last was a successful extraction, save,
\* approval or unapproval, payment_amount is the sum of final_paid_amount
\* over the lines.
C5_AmountIsLineSum ==
  (/\ last.op \in {"process", "save", "save_approve", "approve", "unapprove"}
   /\ last.result = "success")
  => rem.payment_amount = SumFinal(lines)

\* C6: on every stored line final_paid_amount is manual_paid_amount when
\* that is set and ai_paid_amount otherwise, and final_invoice_id is
\* override_invoice_id when that is set and ai_invoice_id otherwise.
C6_FinalIsManualElseAi ==
  \A i \in DOMAIN lines :
    /\ lines[i].final_paid_amount =
         IF lines[i].manual_paid_amount # NONE
         THEN lines[i].manual_paid_amount ELSE lines[i].ai_paid_amount
    /\ lines[i].final_invoice_id =
         IF lines[i].override_invoice_id # NULL
         THEN lines[i].override_invoice_id ELSE lines[i].ai_invoice_id

\* C6 witness: a save has overridden the amount and the invoice of a line
\* with values that differ from the extracted ones.
C6_Witness ==
  /\ last.op = "save" /\ last.result = "success"
  /\ \E i \in DOMAIN lines :
       /\ lines[i].manual_paid_amount \notin {NONE, lines[i].ai_paid_amount}
       /\ lines[i].override_invoice_id \notin {NULL, lines[i].ai_invoice_id}
       /\ lines[i].final_paid_amount = lines[i].manual_paid_amount
       /\ lines[i].final_invoice_id = lines[i].override_invoice_id

C8_AuditFailureRollsBack ==
  [][\A c \in Callers :
       (/\ call[c].op = "save" /\ call[c].pc = "write"
        /\ call'[c].pc = "idle"
        /\ audit_log' = audit_log)
       => /\ last'.result # "success"
          /\ rem' = rem
          /\ lines' = lines]_vars

\* C9: every process, retry or save call that returns anything but
\* AccessDenied has appended an audit entry when it returns.
C9_EveryAttemptAudited ==
  [][\A c \in Callers :
       LET atOnce ==
             /\ call[c].pc = "idle" /\ nops' = nops + 1 /\ call' = call
             /\ last'.op \in {"process", "retry", "save"}
           later ==
             /\ call[c].op \in {"process", "save"}
             /\ call'[c].pc = "idle"
       IN ((atOnce \/ later) /\ last'.result # "AccessDenied")
          => Len(audit_log') = Len(audit_log) + 1]_vars

\* C10: an Unapprove that returns PaymentReconciled, the gateway and the
\* database answering, leaves the remittance and the gateway's payments as
\* they were and appends an audit entry with outcome rejected.
C10_ReconciledRejectionAudited ==
  [][(\E c \in Callers, u \in Users :
        /\ UnapproveBegin(c, u, "ok", TRUE)
        /\ last'.result = "PaymentReconciled")
     => /\ rem' = rem
        /\ payments' = payments
        /\ Len(audit_log') = Len(audit_log) + 1
        /\ audit_log'[Len(audit_log')].action = "unapproval"
        /\ audit_log'[Len(audit_log')].outcome = "rejected"]_vars

\* C11: an approval (the /approve entry point or save-overrides with approve
\* set) of a remittance that is Unmatched with a line no manual override
\* resolves returns InvalidTransition, leaves the remittance, its lines and
\* the gateway's payments as they were, starts no gateway call, and appends
\* at most the audit entry of the rejection.
C11_UnresolvedApproveRejected ==
  [][\A c \in Callers :
       LET resolved(ls) ==
             \A i \in DOMAIN ls : ls[i].override_invoice_id # NULL
           rejection ==
             /\ last'.result = "InvalidTransition"
             /\ rem' = rem /\ payments' = payments
             /\ \/ audit_log' = audit_log
                \/ audit_log' =
                     Append(audit_log,
                            [action |-> "approval", outcome |-> "rejected"])
           asked ==
             /\ call[c].pc = "idle" /\ nops' = nops + 1
             /\ \/ call' = call /\ last'.op = "approve"
                                /\ last'.result # "AccessDenied"
                \/ call'[c].op = "approve"
           saved ==
             /\ call[c].op = "save" /\ call[c].pc = "write"
             /\ call[c].req.approve /\ call'[c].pc = "idle"
       IN /\ (asked /\ rem.status = Unmatched /\ ~resolved(lines))
             => (call' = call /\ lines' = lines /\ rejection)
          /\ (saved /\ rem.status = Unmatched /\ ~resolved(lines'))
             => rejection]_vars

\* C12: an approval (the /approve entry point or save-overrides with approve
\* set) that returns success leaves the remittance ExportedUnreconciled with
\* xero_payment_id naming a payment that exists at the gateway and
\* payment_amount equal to the sum of final_paid_amount of the lines, and
\* appends exactly one audit entry, with outcome success.
C12_ApproveExports ==
  [][\A c \in Callers :
       LET approving ==
             \/ call[c].op = "approve" /\ call[c].pc = "commit"
             \/ /\ call[c].op = "save" /\ call[c].pc = "write"
                /\ call[c].req.approve
       IN (approving /\ call'[c].pc = "idle" /\ last'.result = "success")
          => /\ rem'.status = ExportedUnreconciled
             /\ rem'.xero_payment_id # NoPay
             /\ payments'[rem'.xero_payment_id] \in {"live", "reconciled"}
             /\ rem'.payment_amount = SumFinal(lines')
             /\ audit_log' =
                  Append(audit_log,
                         [action |-> "approval", outcome |-> "success"])]_vars

C18_AuditorNeverApproves ==
  [][\A c \in Callers :
       LET approving ==
             \/ call[c].op = "approve" /\ call[c].pc = "commit"
             \/ /\ call[c].op = "save" /\ call[c].pc = "write"
                /\ call[c].req.approve
       IN /\ (approving /\ call[c].user = "alice" /\ call'[c].pc = "idle")
             => /\ last'.result # "success"
                /\ rem' = rem /\ lines' = lines
          /\ (call[c].pc = "idle" /\ nops' = nops + 1
              /\ \E dbOk \in BOOLEAN : ApproveBegin(c, "alice", dbOk))
             => /\ last'.result = "AccessDenied" /\ call' = call
                /\ rem' = rem]_vars

C14_BatchEvaluatesAll ==
  \A o \in Orgs :
    (batch.pc[o] = "running")
      ~> (/\ batch.pc[o] = "done"
          /\ \A r \in batch.selected[o] : batch.results[o][r] # NULL)

\* C14 witness: both polls have returned; ACME's first remittance met a
\* gateway error and its second, evaluated after it, was reconciled, and
\* TechCorp's poll, which also met an error, has a result for both.
C14_Witness ==
  /\ \A o \in Orgs : batch.pc[o] = "done" /\ batch.selected[o] = BatchRems
  /\ batch.results["acme"][1] = "ExternalTransient"
  /\ batch.results["acme"][MaxBatch] = "success"
  /\ batch.status["acme"][MaxBatch] = ExportedReconciled
  /\ batch.results["techcorp"][1] = "ExternalTransient"
  /\ batch.results["techcorp"][MaxBatch] # NULL

C22_StatusIgnoresConfidence ==
  [][\A c \in Callers :
       (/\ call[c].op = "process" /\ call[c].pc = "extract"
        /\ call'[c].pc = "idle" /\ last'.result = "success")
       => \A confidence \in Confidences :
            rem'.status = ExtractedStatus(confidence)]_vars

\* C23: under every interleaving of save-overrides with an approval, no step
\* changes manual_paid_amount or override_invoice_id of a line once the
\* remittance is ExportedUnreconciled or ExportedReconciled: the manual
\* fields change only in a status that is still editable.
C23_ManualFieldsOnlyWhileEditable ==
  [][(\E i \in DOMAIN lines \cap DOMAIN lines' :
        \/ lines'[i].manual_paid_amount # lines[i].manual_paid_amount
        \/ lines'[i].override_invoice_id # lines[i].override_invoice_id)
     => rem.status \notin {ExportedUnreconciled, ExportedReconciled}]_vars

C26_ExtractedFieldsImmutable ==
  [][\A i \in DOMAIN lines \cap DOMAIN lines' :
       /\ lines'[i].invoice_number = lines[i].invoice_number
       /\ lines'[i].ai_paid_amount = lines[i].ai_paid_amount
       /\ lines'[i].ai_invoice_id = lines[i].ai_invoice_id]_vars

\* C26 witness: save-overrides has written a manual amount and a manual
\* invoice match onto a line whose extracted amount and match differ from
\* them and are still there.
C26_Witness ==
  /\ last.op = "save" /\ last.result = "success"
  /\ Len(lines) >= 1
  /\ lines[1].manual_paid_amount = 2 /\ lines[1].ai_paid_amount = 1
  /\ lines[1].final_paid_amount = 2
  /\ lines[1].override_invoice_id = "INV-002"
  /\ lines[1].ai_invoice_id # "INV-002"

\* C27: while the remittance is ExportFailed, an Approve (the /approve entry
\* point or save-overrides with approve set), an Unapprove and a Retry by a
\* member who may approve are each rejected at once, with InvalidTransition
\* or AlreadyProcessed, and leave the remittance, its lines and the
\* gateway's payments as they were.
C27_ExportFailedBlocks ==
  [][\A c \in Callers :
       (/\ rem.status = ExportFailed
        /\ call[c].pc = "idle" /\ nops' = nops + 1
        /\ \/ \E dbOk \in BOOLEAN :
                \/ ApproveBegin(c, "bob", dbOk)
                \/ UnapproveBegin(c, "bob", "ok", dbOk)
                \/ UnapproveBegin(c, "bob", "transient", dbOk)
                \/ Retry(c, "bob", dbOk)
           \/ \E req \in Requests : req.approve /\ SaveBegin(c, "bob", req))
       => /\ last'.result \in {"InvalidTransition", "AlreadyProcessed"}
          /\ call' = call
          /\ rem' = rem /\ lines' = lines /\ payments' = payments]_vars

\* C27 witness: a Retry was rejected on a remittance that is ExportFailed.
C27_Witness ==
  /\ last.op = "retry" /\ last.result = "InvalidTransition"
  /\ rem.status = ExportFailed

C29_RetryBounded ==
  [][(client.fetch.pc = "running" /\ client'.fetch # client.fetch
        /\ client'.fetch.pc # "done")
     => LET f == client.fetch
            g == client'.fetch
            retried == g.attempts = f.attempts + 1
            query == f.kind = "query"
        IN /\ g.attempts \in {f.attempts, f.attempts + 1}
           /\ retried <=> g.pc = "running"
           /\ ~retried <=> g.pc = "failed"
           /\ (g.error.hasResponse /\ g.error.status \in 400..499)
                => ~retried
           /\ retried => f.failureCount < (IF query THEN 3 ELSE 1)
           /\ g.attempts <= (IF query THEN 4 ELSE 2)
           /\ (f.attempts = (IF query THEN 4 ELSE 2)) => g.pc = "failed"]_vars

\* a query that failed four times with errors other than 4xx and was given up
C29_Witness ==
  /\ client.fetch.kind = "query"
  /\ client.fetch.pc = "failed"
  /\ client.fetch.attempts = 4
  /\ client.fetch.failureCount = 3
  /\ ~client.fetch.error.hasResponse

\* C30: a request sent through useApiClient carries the Authorization header
\* built from the token getToken returned for that call, and none when
\* getToken returned no token, whatever other calls are in flight and
\* whatever an earlier call has set.
C30_HeaderFromOwnToken ==
  \A s \in ClientSlots :
    client.req[s].pc = "sent"
      => client.req[s].header =
           (IF client.req[s].token = NoToken THEN NoHeader
            ELSE <<"Bearer", client.req[s].token>>)

====
